---- MODULE Spec2Model ----
(***************************************************************************)
(* A model of extractpdf.py: the command line (__main__), the orchestrator *)
(* process_files, the worker loop process_queue, the guarded append        *)
(* write_to_output, and the layout flattening get_text_labels / parse_obj  *)
(* / get_font.                                                             *)
(*                                                                         *)
(* The output file is a sequence of tokens.  A token is a record           *)
(*   [tok, path, by]: tok is the text written ("[", ",", "]", "rec" for    *)
(*   the json.dumps of one result, "part" for some of its bytes left by a  *)
(*   failed write), path the file the result belongs to                    *)
(*   (0 for a delimiter), by the process whose write call produced it      *)
(*   (history, not part of the bytes; Bytes projects it away).             *)
(* Processes: the orchestrator is Orch, the workers are 1..MaxProcs.       *)
(* multiprocessing starts the workers by fork, so output_lock (line 9) is  *)
(* one lock shared by the orchestrator and every worker.                   *)
(***************************************************************************)
EXTENDS Integers, Sequences, FiniteSets, TLC

\* Bounds of the model.
MaxProcs == 2      \* largest worker count given with -p
MaxFiles == 3      \* largest number of files the walk finds

\* Program constant: max_processes = 2 (line 8).
DefaultMaxProcesses == 2

Orch == 0
Workers == 1..MaxProcs
Earlier == MaxProcs + 1   \* the writer of an earlier run's output

VARIABLES
    cmdline,        \* argv[1:] as getopt returns it
    nfiles,         \* number of files matching filename_filter under "."
    extractable,    \* path -> whether get_result_from_file returns for it
    max_processes,  \* global max_processes
    exit_status,    \* -1 while the main process runs, else its exit status
    opc,            \* position of the main process
    started,        \* workers started by the loop of line 134
    file_count,     \* file_count of process_files
    file_queue,     \* items put and not yet got
    unfinished,     \* JoinableQueue's count of items put and not yet task_done
    output_lock,    \* set of processes holding output_lock
    file_exists,    \* os.path.isfile(filename_output)
    file,           \* content of filename_output
    wpc,            \* worker -> position in process_queue
    filename_input, \* worker -> item it got last (0: none yet)
    delim,          \* worker -> delim chosen in write_to_output
    acked,          \* path -> number of task_done calls made for it
    had_output,     \* whether an earlier run's output existed at the start
    got,            \* path -> the workers get() returned it to, in order
    tree,           \* a page layout, in pre-order (layout part)
    labels,         \* result of get_text_labels (layout part)
    fonts,          \* text line -> result of get_font (layout part)
    lpc             \* position of the layout part

pipeVars == <<cmdline, nfiles, extractable, max_processes, exit_status, opc,
              started, file_count, file_queue, unfinished, output_lock,
              file_exists, file, wpc, filename_input, delim, acked,
              had_output, got>>
layoutVars == <<tree, labels, fonts, lpc>>
vars == <<pipeVars, layoutVars>>

(***************************************************************************)
(* Command line.                                                           *)
(***************************************************************************)
Digits == <<"0", "1", "2", "3", "4", "5", "6", "7", "8", "9">>
DigitSet == {Digits[i] : i \in 1..10}
DigitVal(c) == (CHOOSE i \in 1..10 : Digits[i] = c) - 1

RECURSIVE DigitsVal(_, _)
DigitsVal(s, acc) ==
    IF s = <<>> THEN acc
    ELSE DigitsVal(Tail(s), acc * 10 + DigitVal(Head(s)))

\* str(n) for n >= 0.
RECURSIVE Str(_)
Str(n) == IF n < 10 THEN <<Digits[n + 1]>>
          ELSE Str(n \div 10) \o <<Digits[(n % 10) + 1]>>

\* A character is a string of one character, or the Python escape of it
\* ("\\x0b" is the vertical tab).
\* The whitespace of a byte string (argv): what str.strip and int skip.
AsciiSpace == {" ", "\t", "\n", "\r", "\f", "\\x0b"}

RECURSIVE SkipLeft(_, _)
SkipLeft(s, W) == IF s # <<>> /\ Head(s) \in W THEN SkipLeft(Tail(s), W) ELSE s

RECURSIVE SkipRight(_, _)
SkipRight(s, W) == IF s # <<>> /\ s[Len(s)] \in W
                   THEN SkipRight(SubSeq(s, 1, Len(s) - 1), W) ELSE s

\* Python 2's int(arg) on a string of characters (base 10): whitespace is
\* skipped, an optional sign is read, whitespace is skipped again, one or more
\* decimal digits are read, and trailing whitespace is skipped; anything else
\* is a ValueError (ok = FALSE).
int(s) ==
    LET t == SkipRight(SkipLeft(s, AsciiSpace), AsciiSpace)
        signed == t # <<>> /\ Head(t) \in {"-", "+"}
        body == IF signed THEN SkipLeft(Tail(t), AsciiSpace) ELSE t
        wellformed == body # <<>> /\ \A i \in 1..Len(body) : body[i] \in DigitSet
    IN  IF ~wellformed THEN [ok |-> FALSE, val |-> 0]
        ELSE [ok |-> TRUE,
              val |-> IF signed /\ Head(t) = "-" THEN 0 - DigitsVal(body, 0)
                      ELSE DigitsVal(body, 0)]

\* Values given to -p.
PArgs == {Str(n) : n \in 0..MaxProcs}
           \cup {<<"-", " ", "1">>, <<"x">>, <<>>, <<" ">>, <<"1", " ", "2">>, <<"-", "+", "1">>}

Opt(o, a) == [opt |-> o, arg |-> a]

\* Command lines: what getopt(argv[1:], "ho:p:") returns (malformed: GetoptError).
Cmdlines ==
    {[malformed |-> TRUE, opts |-> <<>>]} \cup
    {[malformed |-> FALSE, opts |-> o] :
        o \in {<<>>, <<Opt("-h", <<>>)>>,
               <<Opt("-o", <<"x">>), Opt("-p", <<" ", "1", "\n">>)>>}
              \cup {<<Opt("-p", a)>> : a \in PArgs}}

\* The loop of lines 175-182 over opts, from the state [mp, status]:
\* status -1 means the loop ran on, 0 is exit() after show_help, 1 the uncaught
\* ValueError of int(arg).
RECURSIVE ParseOpts(_, _)
ParseOpts(opts, mp) ==
    IF opts = <<>> THEN [mp |-> mp, status |-> -1]
    ELSE LET o == Head(opts) IN
         IF o.opt = "-p" THEN
             IF int(o.arg).ok THEN ParseOpts(Tail(opts), int(o.arg).val)
             ELSE [mp |-> mp, status |-> 1]
         ELSE IF o.opt = "-h" THEN [mp |-> mp, status |-> 0]
         ELSE ParseOpts(Tail(opts), mp)

(***************************************************************************)
(* Output file and queue helpers.                                          *)
(***************************************************************************)
Token(t, p, w) == [tok |-> t, path |-> p, by |-> w]
Bytes(f) == [i \in 1..Len(f) |-> [tok |-> f[i].tok, path |-> f[i].path]]
Byte(t, p) == [tok |-> t, path |-> p]

\* What an earlier run with no matching file left behind.
OldOutput == <<Token("]", 0, Earlier)>>

\* get_result_from_file(filename) for an extractable file (line 23, 48).
get_result_from_file(filename) == [filename |-> filename]

\* json.dumps(labels, sort_keys=True, indent=4): one JSON object text.
JsonDumps(result) == [tok |-> "rec", path |-> result.filename]

\* A faulty choice of delimiter: ',' also for the first append.
DelimAlwaysComma(isfile) == ","

\* Lines 104-107: the delimiter chosen from os.path.isfile(filename).
DelimFor(isfile) == IF isfile THEN "," ELSE "["

\* A faulty lock: taken without waiting for its holder.
LockAlwaysFree(holders) == TRUE

\* with output_lock: the lock can be taken when nobody holds it.
LockFree(holders) == holders = {}

\* A faulty release: the lock stays with the process that leaves the block.
KeepLocked(holders, p) == holders

\* The with output_lock block is left (normally or by an exception): the lock
\* is released.
Unlocked(holders, p) == holders \ {p}

\* A faulty get: the item is returned and stays on the queue.
QueueKeepsItem(q) == q

\* queue.get() takes the returned item off the queue.
QueueAfterGet(q) == Tail(q)

\* A faulty join: returns without waiting for the acknowledgements.
JoinNoWait(count) == TRUE

\* file_queue.join() returns when every put item has been task_done.
JoinReturns(count) == count = 0

\* A faulty start: the earlier output is left in place.
RemoveNothing(exists, content) == [exists |-> exists, content |-> content]

\* Lines 131-132: the file after the removal of an earlier output.
RemoveOutput(exists, content) == [exists |-> FALSE, content |-> <<>>]

(***************************************************************************)
(* Initial states.                                                         *)
(***************************************************************************)
LayoutIdle ==
    /\ tree = <<>>
    /\ labels = <<>>
    /\ fonts = <<>>
    /\ lpc = "off"

Init ==
    /\ cmdline \in Cmdlines
    /\ nfiles \in 0..MaxFiles
    /\ extractable \in [1..nfiles -> BOOLEAN]
    /\ max_processes = DefaultMaxProcesses
    /\ exit_status = -1
    /\ opc = "main"
    /\ started = 0
    /\ file_count = 0
    /\ file_queue = <<>>
    /\ unfinished = 0
    /\ output_lock = {}
    /\ file_exists \in BOOLEAN
    /\ file = IF file_exists THEN OldOutput ELSE <<>>
    /\ wpc = [w \in Workers |-> "unborn"]
    /\ filename_input = [w \in Workers |-> 0]
    /\ delim = [w \in Workers |-> ""]
    /\ acked = [p \in 1..nfiles |-> 0]
    /\ had_output = file_exists
    /\ got = [p \in 1..nfiles |-> <<>>]
    /\ LayoutIdle

(***************************************************************************)
(* __main__ (lines 164-185).                                               *)
(***************************************************************************)
Main ==
    /\ opc = "main"
    /\ LET r == ParseOpts(cmdline.opts, max_processes) IN
       IF cmdline.malformed
       THEN /\ exit_status' = 2
            /\ opc' = "exited"
            /\ UNCHANGED max_processes
       ELSE /\ max_processes' = r.mp
            /\ exit_status' = r.status
            /\ opc' = IF r.status = -1 THEN "remove" ELSE "exited"
    /\ UNCHANGED <<cmdline, nfiles, extractable, started, file_count, file_queue,
                   unfinished, output_lock, file_exists, file, wpc,
                   filename_input, delim, acked, had_output, got, layoutVars>>

(***************************************************************************)
(* process_files (lines 124-152).                                          *)
(***************************************************************************)
\* Lines 131-132.
Remove ==
    /\ opc = "remove"
    /\ IF file_exists
       THEN LET r == RemoveOutput(file_exists, file) IN
            /\ file_exists' = r.exists
            /\ file' = r.content
       ELSE UNCHANGED <<file_exists, file>>
    /\ opc' = "start"
    /\ UNCHANGED <<cmdline, nfiles, extractable, max_processes, exit_status,
                   started, file_count, file_queue, unfinished, output_lock,
                   wpc, filename_input, delim, acked, had_output, got, layoutVars>>

\* Lines 134-137: one iteration of the loop over range(max_processes).
StartWorker ==
    /\ opc = "start"
    /\ started < max_processes
    /\ started < MaxProcs
    /\ started' = started + 1
    /\ wpc' = [wpc EXCEPT ![started + 1] = "get"]
    /\ UNCHANGED <<cmdline, nfiles, extractable, max_processes, exit_status, opc,
                   file_count, file_queue, unfinished, output_lock, file_exists,
                   file, filename_input, delim, acked, had_output, got, layoutVars>>

\* The loop of line 134 ends.
StartDone ==
    /\ opc = "start"
    /\ started >= max_processes
    /\ opc' = "walk"
    /\ UNCHANGED <<cmdline, nfiles, extractable, max_processes, exit_status,
                   started, file_count, file_queue, unfinished, output_lock,
                   file_exists, file, wpc, filename_input, delim, acked,
                   had_output, got, layoutVars>>

\* Lines 139-144: one matching file is counted and put on the queue.
Put ==
    /\ opc = "walk"
    /\ file_count < nfiles
    /\ file_count' = file_count + 1
    /\ file_queue' = Append(file_queue, file_count + 1)
    /\ unfinished' = unfinished + 1
    /\ UNCHANGED <<cmdline, nfiles, extractable, max_processes, exit_status, opc,
                   started, output_lock, file_exists, file, wpc, filename_input,
                   delim, acked, had_output, got, layoutVars>>

\* os.walk is exhausted; the orchestrator calls file_queue.join() (line 146).
WalkDone ==
    /\ opc = "walk"
    /\ file_count = nfiles
    /\ opc' = "join"
    /\ UNCHANGED <<cmdline, nfiles, extractable, max_processes, exit_status,
                   started, file_count, file_queue, unfinished, output_lock,
                   file_exists, file, wpc, filename_input, delim, acked,
                   had_output, got, layoutVars>>

\* Line 146: join() returns.
Join ==
    /\ opc = "join"
    /\ JoinReturns(unfinished)
    /\ opc' = "lock"
    /\ UNCHANGED <<cmdline, nfiles, extractable, max_processes, exit_status,
                   started, file_count, file_queue, unfinished, output_lock,
                   file_exists, file, wpc, filename_input, delim, acked,
                   had_output, got, layoutVars>>

\* Line 148: with output_lock.
FinalLock ==
    /\ opc = "lock"
    /\ LockFree(output_lock)
    /\ output_lock' = output_lock \cup {Orch}
    /\ opc' = "open"
    /\ UNCHANGED <<cmdline, nfiles, extractable, max_processes, exit_status,
                   started, file_count, file_queue, unfinished, file_exists, file,
                   wpc, filename_input, delim, acked, had_output, got, layoutVars>>

\* Line 149: open(filename_output, 'a') creates the file when it is absent.
FinalOpen ==
    /\ opc = "open"
    /\ file_exists' = TRUE
    /\ opc' = "write"
    /\ UNCHANGED <<cmdline, nfiles, extractable, max_processes, exit_status,
                   started, file_count, file_queue, unfinished, output_lock, file,
                   wpc, filename_input, delim, acked, had_output, got, layoutVars>>

\* Line 150: f.write(']').
FinalWrite ==
    /\ opc = "write"
    /\ file' = Append(file, Token("]", 0, Orch))
    /\ opc' = "unlock"
    /\ UNCHANGED <<cmdline, nfiles, extractable, max_processes, exit_status,
                   started, file_count, file_queue, unfinished, output_lock,
                   file_exists, wpc, filename_input, delim, acked, had_output, got, layoutVars>>

\* The with blocks of lines 148-149 end: the file is closed, the lock released.
FinalUnlock ==
    /\ opc = "unlock"
    /\ output_lock' = Unlocked(output_lock, Orch)
    /\ opc' = "done"
    /\ UNCHANGED <<cmdline, nfiles, extractable, max_processes, exit_status,
                   started, file_count, file_queue, unfinished, file_exists, file,
                   wpc, filename_input, delim, acked, had_output, got, layoutVars>>

\* process_files returns (line 152) and the main process exits with status 0;
\* the daemon workers (line 136) are terminated with it.
Exit ==
    /\ opc = "done"
    /\ opc' = "exited"
    /\ exit_status' = 0
    /\ wpc' = [w \in Workers |-> IF wpc[w] \in {"unborn", "dead"} THEN wpc[w]
                                 ELSE "terminated"]
    /\ UNCHANGED <<cmdline, nfiles, extractable, max_processes, started,
                   file_count, file_queue, unfinished, output_lock, file_exists,
                   file, filename_input, delim, acked, had_output, got, layoutVars>>

(***************************************************************************)
(* process_queue (lines 113-121) and write_to_output (lines 99-110).       *)
(***************************************************************************)
\* Line 115: get() returns the head of the queue; it blocks on an empty queue.
Get(w) ==
    /\ wpc[w] = "get"
    /\ file_queue # <<>>
    /\ filename_input' = [filename_input EXCEPT ![w] = Head(file_queue)]
    /\ file_queue' = QueueAfterGet(file_queue)
    /\ got' = [got EXCEPT ![Head(file_queue)] = Append(@, w)]
    /\ wpc' = [wpc EXCEPT ![w] = "process"]
    /\ UNCHANGED <<cmdline, nfiles, extractable, max_processes, exit_status, opc,
                   started, file_count, unfinished, output_lock, file_exists,
                   file, delim, acked, had_output, layoutVars>>

\* Line 117: get_result_from_file returns the result.
ProcessOk(w) ==
    /\ wpc[w] = "process"
    /\ extractable[filename_input[w]]
    /\ wpc' = [wpc EXCEPT ![w] = "lock"]
    /\ UNCHANGED <<cmdline, nfiles, extractable, max_processes, exit_status, opc,
                   started, file_count, file_queue, unfinished, output_lock,
                   file_exists, file, filename_input, delim, acked, had_output, got, layoutVars>>

\* Line 117: get_result_from_file raises (lines 24-28, 37-38). Nothing in
\* process_queue catches it: the exception leaves the loop and the worker
\* process ends.
ProcessRaise(w) ==
    /\ wpc[w] = "process"
    /\ ~extractable[filename_input[w]]
    /\ wpc' = [wpc EXCEPT ![w] = "dead"]
    /\ UNCHANGED <<cmdline, nfiles, extractable, max_processes, exit_status, opc,
                   started, file_count, file_queue, unfinished, output_lock,
                   file_exists, file, filename_input, delim, acked, had_output, got, layoutVars>>

\* Line 103: with output_lock.
Acquire(w) ==
    /\ wpc[w] = "lock"
    /\ LockFree(output_lock)
    /\ output_lock' = output_lock \cup {w}
    /\ wpc' = [wpc EXCEPT ![w] = "isfile"]
    /\ UNCHANGED <<cmdline, nfiles, extractable, max_processes, exit_status, opc,
                   started, file_count, file_queue, unfinished, file_exists, file,
                   filename_input, delim, acked, had_output, got, layoutVars>>

\* Lines 104-107.
IsFile(w) ==
    /\ wpc[w] = "isfile"
    /\ delim' = [delim EXCEPT ![w] = DelimFor(file_exists)]
    /\ wpc' = [wpc EXCEPT ![w] = "open"]
    /\ UNCHANGED <<cmdline, nfiles, extractable, max_processes, exit_status, opc,
                   started, file_count, file_queue, unfinished, output_lock,
                   file_exists, file, filename_input, acked, had_output, got, layoutVars>>

\* Line 108: open(filename, 'a+') creates the file when it is absent.
Open(w) ==
    /\ wpc[w] = "open"
    /\ file_exists' = TRUE
    /\ wpc' = [wpc EXCEPT ![w] = "write_delim"]
    /\ UNCHANGED <<cmdline, nfiles, extractable, max_processes, exit_status, opc,
                   started, file_count, file_queue, unfinished, output_lock, file,
                   filename_input, delim, acked, had_output, got, layoutVars>>

\* Line 109: f.write(delim).
WriteDelim(w) ==
    /\ wpc[w] = "write_delim"
    /\ file' = Append(file, Token(delim[w], 0, w))
    /\ wpc' = [wpc EXCEPT ![w] = "write_record"]
    /\ UNCHANGED <<cmdline, nfiles, extractable, max_processes, exit_status, opc,
                   started, file_count, file_queue, unfinished, output_lock,
                   file_exists, filename_input, delim, acked, had_output, got, layoutVars>>

\* Line 110: f.write(json.dumps(labels, ...)).
WriteRecord(w) ==
    /\ wpc[w] = "write_record"
    /\ LET r == JsonDumps(get_result_from_file(filename_input[w])) IN
       file' = Append(file, Token(r.tok, r.path, w))
    /\ wpc' = [wpc EXCEPT ![w] = "unlock"]
    /\ UNCHANGED <<cmdline, nfiles, extractable, max_processes, exit_status, opc,
                   started, file_count, file_queue, unfinished, output_lock,
                   file_exists, filename_input, delim, acked, had_output, got, layoutVars>>

\* The with blocks of lines 103 and 108 end: the file is closed, the lock released.
Release(w) ==
    /\ wpc[w] = "unlock"
    /\ output_lock' = Unlocked(output_lock, w)
    /\ wpc' = [wpc EXCEPT ![w] = "task_done"]
    /\ UNCHANGED <<cmdline, nfiles, extractable, max_processes, exit_status, opc,
                   started, file_count, file_queue, unfinished, file_exists, file,
                   filename_input, delim, acked, had_output, got, layoutVars>>

\* Line 121: queue.task_done(), then back to line 115.
TaskDone(w) ==
    /\ wpc[w] = "task_done"
    /\ unfinished' = unfinished - 1
    /\ acked' = [acked EXCEPT ![filename_input[w]] = @ + 1]
    /\ wpc' = [wpc EXCEPT ![w] = "get"]
    /\ UNCHANGED <<cmdline, nfiles, extractable, max_processes, exit_status, opc,
                   started, file_count, file_queue, output_lock, file_exists,
                   file, filename_input, delim, had_output, got, layoutVars>>

Next ==
    \/ Main
    \/ Remove
    \/ StartWorker
    \/ StartDone
    \/ Put
    \/ WalkDone
    \/ Join
    \/ FinalLock
    \/ FinalOpen
    \/ FinalWrite
    \/ FinalUnlock
    \/ Exit
    \/ \E w \in Workers : Get(w)
    \/ \E w \in Workers : ProcessOk(w)
    \/ \E w \in Workers : ProcessRaise(w)
    \/ \E w \in Workers : Acquire(w)
    \/ \E w \in Workers : IsFile(w)
    \/ \E w \in Workers : Open(w)
    \/ \E w \in Workers : WriteDelim(w)
    \/ \E w \in Workers : WriteRecord(w)
    \/ \E w \in Workers : Release(w)
    \/ \E w \in Workers : TaskDone(w)

Spec == Init /\ [][Next]_vars

(***************************************************************************)
(* Fair scheduling: the main process and every worker process is a process *)
(* of its own, and a process that can take a step is eventually run.       *)
(***************************************************************************)
OrchStep ==
    \/ Main
    \/ Remove
    \/ StartWorker
    \/ StartDone
    \/ Put
    \/ WalkDone
    \/ Join
    \/ FinalLock
    \/ FinalOpen
    \/ FinalWrite
    \/ FinalUnlock
    \/ Exit

WorkerStep(w) ==
    \/ Get(w)
    \/ ProcessOk(w)
    \/ ProcessRaise(w)
    \/ Acquire(w)
    \/ IsFile(w)
    \/ Open(w)
    \/ WriteDelim(w)
    \/ WriteRecord(w)
    \/ Release(w)
    \/ TaskDone(w)

FairSpec ==
    /\ Init
    /\ [][Next]_vars
    /\ WF_vars(OrchStep)
    /\ \A w \in Workers : WF_vars(WorkerStep(w))

(***************************************************************************)
(* Properties of the pipeline, checked under Spec.                         *)
(***************************************************************************)
InSection(w) ==
    wpc[w] \in {"isfile", "open", "write_delim", "write_record", "unlock"}
OrchInSection == opc \in {"open", "write", "unlock"}
ClosingWritten == opc \in {"unlock", "done", "exited"} /\ file_count = nfiles
                  /\ \E i \in 1..Len(file) : file[i].tok = "]" /\ file[i].by = Orch
AllSucceed == \A p \in 1..nfiles : extractable[p]
Records(f) == {i \in 1..Len(f) : f[i].tok = "rec"}
Delims(f) == {i \in 1..Len(f) : f[i].tok \in {"[", ","}}
Closings(f) == {i \in 1..Len(f) : f[i].tok = "]" /\ f[i].by = Orch}

\* '[' record (',' record)* ']'
IsRecordArray(b) ==
    /\ Len(b) >= 3
    /\ Len(b) % 2 = 1
    /\ b[1].tok = "["
    /\ b[Len(b)].tok = "]"
    /\ \A i \in 2..(Len(b) - 1) : b[i].tok = IF i % 2 = 0 THEN "rec" ELSE ","

\* C1: with N >= 1 workers and K >= 1 matching files that all process
\* successfully, once the closing bracket is written the output file is
\* '[' record (',' record)* ']' with exactly K records, one per enqueued path.
C1_ValidArrayOfK ==
    (max_processes >= 1 /\ nfiles >= 1 /\ AllSucceed /\ ClosingWritten)
        => /\ IsRecordArray(Bytes(file))
           /\ Cardinality(Records(file)) = nfiles
           /\ {file[i].path : i \in Records(file)} = 1..nfiles

\* A run of two workers over three files has ended, the record of file 2
\* written before the record of file 1.
C1_Witness ==
    /\ opc = "exited" /\ ClosingWritten
    /\ max_processes = 2 /\ nfiles = 3 /\ AllSucceed
    /\ file[2].path = 2 /\ file[2].by = 2

\* C2: at most one process at a time is inside a section guarded by
\* output_lock, and every delimiter in the file is directly followed by the
\* record of the worker that wrote it (or that worker is about to write it):
\* a record and its delimiter are contiguous.
C2_OneWriterContiguous ==
    /\ Cardinality({w \in Workers : InSection(w)})
         + (IF OrchInSection THEN 1 ELSE 0) <= 1
    /\ \A i \in Delims(file) :
         IF i < Len(file)
         THEN file[i + 1].tok = "rec" /\ file[i + 1].by = file[i].by
         ELSE wpc[file[i].by] = "write_record"
    /\ \A i \in Records(file) :
         i > 1 /\ i - 1 \in Delims(file) /\ file[i - 1].by = file[i].by

\* Worker 1 is between its two writes while worker 2 waits for the lock.
C2_Witness ==
    /\ wpc[1] = "write_record" /\ wpc[2] = "lock"
    /\ Len(file) = 3 /\ file[3].tok = ","

\* C3 (as claimed): a run that enqueues nothing (here with N >= 1 workers)
\* ends with the file '[]'.
C3_EmptyRunClaim ==
    (opc = "done" /\ nfiles = 0 /\ max_processes >= 1)
        => Bytes(file) = <<Byte("[", 0), Byte("]", 0)>>

\* The command line is accepted: process_files is called.
Accepted ==
    /\ ~cmdline.malformed
    /\ ParseOpts(cmdline.opts, DefaultMaxProcesses).status = -1
\* process_files has run to its end (and not: the command line ended the process).
Completed == Accepted /\ opc \in {"done", "exited"}

BadFiles == {p \in 1..nfiles : ~extractable[p]}

\* C4 (as claimed): with three files of which exactly one fails, the run
\* completes (it is never stuck before the end) and its output holds exactly
\* the 2 records of the files that succeeded.
C4_OneFailureClaim ==
    (Accepted /\ opc # "main" /\ max_processes >= 1 /\ nfiles = 3
       /\ Cardinality(BadFiles) = 1)
        => /\ opc = "exited" \/ ENABLED Next
           /\ Completed
                => /\ Cardinality(Records(file)) = 2
                   /\ {file[i].path : i \in Records(file)} = (1..3) \ BadFiles

\* C5 (as claimed): every item a worker got is acknowledged exactly once
\* before the worker gets the next one, also when its processing raised; no
\* worker ends, so the number of live workers stays N.
C5_AckAndSurviveClaim ==
    /\ \A w \in Workers : wpc[w] # "dead"
    /\ \A w \in Workers :
         (filename_input[w] # 0 /\ wpc[w] \in {"get", "dead", "terminated"})
             => acked[filename_input[w]] = 1
    /\ \A p \in 1..nfiles : acked[p] <= 1
    /\ Accepted /\ max_processes >= 1 /\ opc \notin {"main", "remove", "start"}
         => Cardinality({w \in Workers : wpc[w] \notin {"unborn", "dead"}})
              = max_processes

\* C6: the closing bracket is written at most once, only after join() has
\* returned with every item acknowledged and no worker inside or on its way
\* to write_to_output; nothing is appended after it, and when process_files
\* has run to its end the file holds exactly one ']', as its last token.
C6_ClosingOnceAtEnd ==
    /\ Cardinality(Closings(file)) <= 1
    /\ \A i \in Closings(file) :
         /\ i = Len(file)
         /\ opc \in {"unlock", "done", "exited"}
    /\ opc \in {"lock", "open", "write", "unlock", "done"}
         => /\ unfinished = 0
            /\ file_queue = <<>>
            /\ \A w \in Workers : wpc[w] \in {"unborn", "get"}
    /\ Completed
         => /\ Cardinality(Closings(file)) = 1
            /\ file[Len(file)].tok = "]"

\* A run over two files has ended with both records and the bracket written.
C6_Witness ==
    /\ opc = "done" /\ nfiles = 2
    /\ Len(file) = 5 /\ file[5].tok = "]" /\ file[5].by = Orch

PValues == {cmdline.opts[i].arg : i \in {j \in 1..Len(cmdline.opts) :
                                            cmdline.opts[j].opt = "-p"}}
NotPositive(a) == ~int(a).ok \/ int(a).val <= 0

\* C7 (as claimed): when the value of -p is not a positive integer the
\* process exits with a non-zero status before any work: no worker is
\* started, nothing is enqueued, join() is never entered.
C7_BadProcessesClaim ==
    (~cmdline.malformed /\ \E a \in PValues : NotPositive(a))
        => /\ opc \in {"main", "exited"}
           /\ opc = "exited" => exit_status > 0
           /\ started = 0
           /\ file_count = 0

\* C10: whether or not an earlier output existed, the first delimiter of the
\* run is '[' at the start of the file and every later one is ','; a worker
\* inside the section chose '[' exactly when no append had been made before
\* it, so no two appends write '['.
C10_OneOpening ==
    /\ Delims(file) # {}
         => /\ file[1].tok = "[" /\ file[1].by \in Workers
            /\ \A i \in Delims(file) : i > 1 => file[i].tok = ","
    /\ \A w \in Workers :
         wpc[w] \in {"open", "write_delim"}
             => (delim[w] = "[") = (file = <<>>)
    /\ Cardinality({w \in Workers :
                      wpc[w] \in {"open", "write_delim"} /\ delim[w] = "["}) <= 1

\* An earlier output existed, and the second append of the run has written
\* its ',' after the first one's '[' and record.
C10_Witness ==
    /\ had_output
    /\ Len(file) = 3 /\ file[1].tok = "[" /\ file[3].tok = ","
    /\ file[1].by # file[3].by


\* Paths that get() has returned and that are not yet acknowledged.
InFlight == {p \in 1..nfiles : got[p] # <<>> /\ acked[p] = 0}
Queued == {file_queue[i] : i \in 1..Len(file_queue)}
PastJoin == Accepted /\ opc \in {"lock", "open", "write", "unlock", "done", "exited"}

\* C11: get() returns every path to at most one worker, a path that was put
\* is either still queued or was returned exactly once, every path was
\* returned exactly once when join() has returned, and the file holds at most
\* one record per path, written by the worker that got the path.
C11_EachPathOnce ==
    /\ \A p \in 1..nfiles :
         /\ Len(got[p]) <= 1
         /\ p \in Queued => got[p] = <<>>
         /\ (p <= file_count /\ p \notin Queued) => Len(got[p]) = 1
         /\ p > file_count => got[p] = <<>>
    /\ Len(file_queue) = Cardinality(Queued)
    /\ PastJoin => \A p \in 1..nfiles : Len(got[p]) = 1
    /\ \A i, j \in Records(file) : file[i].path = file[j].path => i = j
    /\ \A i \in Records(file) : got[file[i].path] = <<file[i].by>>

\* join() has returned in a run over three files of which worker 1 got the
\* first and the third and worker 2 the second.
C11_Witness ==
    /\ opc = "lock" /\ nfiles = 3
    /\ got = <<(<<1>>), (<<2>>), (<<1>>)>>
    /\ Cardinality(Records(file)) = 3

RecordedPaths == {file[i].path : i \in Records(file)}

\* C12: join()'s counter is the number of items queued plus in flight, so
\* join() cannot return while an item is queued or in flight, also when the
\* queue is empty; an item is acknowledged only when its record is in the
\* file and its worker has left write_to_output; so when join() has returned
\* nothing is queued or in flight and every processed item's record is written.
C12_JoinWaitsForAcks ==
    /\ unfinished = Len(file_queue) + Cardinality(InFlight)
    /\ (file_queue # <<>> \/ InFlight # {}) => unfinished > 0
    /\ \A p \in 1..nfiles :
         acked[p] >= 1
             => /\ p \in RecordedPaths
                /\ \A w \in Workers : filename_input[w] = p => ~InSection(w)
    /\ PastJoin
         => /\ file_queue = <<>> /\ InFlight = {}
            /\ RecordedPaths = 1..nfiles
            /\ \A w \in Workers : ~InSection(w)

\* The orchestrator is blocked in join(), the queue is empty, and worker 1 is
\* still writing the record of the last item.
C12_Witness ==
    /\ opc = "join" /\ file_queue = <<>> /\ nfiles = 2
    /\ wpc[1] = "write_record" /\ filename_input[1] = 2
    /\ acked[1] = 1 /\ acked[2] = 0

\* Worker w has got an item and has not called task_done() for it.
Holding(w) ==
    wpc[w] \in {"process", "lock", "isfile", "open", "write_delim",
                "write_record", "unlock", "task_done", "dead"}

\* Worker w has stopped between get() and task_done(): it ended on an
\* exception with its item unacknowledged.
Stopped(w) ==
    /\ wpc[w] = "dead"
    /\ filename_input[w] # 0
    /\ acked[filename_input[w]] = 0

\* C13: a worker that ended between get() and task_done() stays so, and over
\* every step that leaves a worker between get() and task_done() (it ended,
\* or it does not get to its task_done()), whatever the other processes do,
\* join() has not returned and does not return: the orchestrator is no
\* further than join() and the file holds no closing bracket.
C13_StoppedWorkerBlocksJoin ==
    [][\A w \in Workers :
          /\ Stopped(w) => Stopped(w)'
          /\ (Holding(w) /\ Holding(w)')
                => /\ unfinished > 0 /\ unfinished' > 0
                   /\ opc \in {"walk", "join"}
                   /\ opc' \in {"walk", "join"}
                   /\ Closings(file') = {}]_vars

\* Worker 1 ended on the first of three files; worker 2 has processed the
\* other two and waits in get(); the orchestrator is in join().
C13_Witness ==
    /\ Stopped(1) /\ filename_input[1] = 1
    /\ wpc[2] = "get" /\ acked = <<0, 1, 1>>
    /\ file_queue = <<>> /\ opc = "join"
    /\ ~ENABLED Next

\* The orchestrator's phase: 0 Idle, 1 Discovering and Enqueueing (with the
\* removal of the old output and the start of the workers), 2 Draining,
\* 3 Finalizing, 4 Done.
Phase(pc) ==
    CASE pc = "main" -> 0
      [] pc \in {"remove", "start", "walk"} -> 1
      [] pc = "join" -> 2
      [] pc \in {"lock", "open", "write", "unlock"} -> 3
      [] OTHER -> 4

WorkersAsked == IF max_processes > 0 THEN max_processes ELSE 0

\* C14: the phase never decreases and, once the command line is accepted,
\* advances one phase at a time; a put happens only in the walk, after the
\* earlier output is gone and all N workers are started; nothing is put from
\* the call of join() on, when every matching file has been put.
C14_PhasesForward ==
    [][/\ Phase(opc') >= Phase(opc)
       /\ Accepted => Phase(opc') <= Phase(opc) + 1
       /\ file_count' # file_count
            => /\ opc = "walk" /\ opc' = "walk"
               /\ file_count' = file_count + 1
               /\ \A i \in 1..Len(file) : file[i].by # Earlier
               /\ started = WorkersAsked
               /\ \A w \in Workers : (wpc[w] # "unborn") = (w <= started)
       /\ started' # started => file_count = 0 /\ opc = "start"
       /\ (file_exists /\ ~file_exists') => file_count = 0 /\ started = 0
       /\ Phase(opc') >= 2 /\ Accepted
            => file_count' = nfiles /\ file_count' = file_count]_vars

\* The walk has put the first of three files: the earlier output is removed
\* and both workers are started.
C14_Witness ==
    /\ opc = "walk" /\ nfiles = 3 /\ file_count = 1
    /\ had_output /\ ~file_exists /\ file = <<>>
    /\ started = 2 /\ wpc = <<"get", "get">>

\* process_files runs with at least one worker and every file is extractable.
Ready == Accepted /\ opc # "main" /\ max_processes >= 1 /\ AllSucceed

\* The run is over: every path acknowledged once and recorded, the closing
\* bracket written, the process exited with status 0.
Done ==
    /\ opc = "exited" /\ exit_status = 0
    /\ ClosingWritten
    /\ file_queue = <<>> /\ unfinished = 0
    /\ \A p \in 1..nfiles : acked[p] = 1 /\ p \in RecordedPaths

\* C17: with at least one worker and no failure, under fair scheduling every
\* run reaches Done (every path retrieved, written and acknowledged, join
\* returned, the closing bracket written), and the run never stops before
\* its exit: no deadlock between the queue and the output lock.
C17_EventuallyDone ==
    /\ Ready ~> Done
    /\ [](Ready /\ ~ENABLED Next => opc = "exited")

\* A finished run of three files, both workers having written records.
C17_Witness ==
    /\ Ready /\ Done
    /\ nfiles = 3
    /\ \A w \in Workers : \E i \in Records(file) : file[i].by = w

(***************************************************************************)
(* Output I/O errors: open, write or the close at the end of the with open *)
(* block raises inside the with output_lock blocks of write_to_output      *)
(* (lines 103-110) or of process_files (lines 148-150).  The blocks are    *)
(* left by the exception: the lock is released.  Writes are buffered, so   *)
(* file holds what has been handed to f.write; after an error the file on  *)
(* disk holds what it held at open and a part of what was handed since:    *)
(* any number of the whole tokens, or these and some of the bytes of the   *)
(* record (token "part").  Nothing catches the exception, so the process   *)
(* it is raised in ends.                                                   *)
(***************************************************************************)
\* Some, not all, of the bytes of a record.
PartOf(tk) == [tk EXCEPT !.tok = "part"]

\* What can be on disk of the tokens handed to f.write when an error is raised.
Cut(pending) ==
    {SubSeq(pending, 1, k) : k \in 0..Len(pending)}
      \cup {Append(SubSeq(pending, 1, k - 1), PartOf(pending[k])) :
               k \in {j \in 1..Len(pending) : pending[j].tok = "rec"}}

\* The tokens worker w has handed to f.write since its open of line 108.
Handed(w) == IF wpc[w] = "write_record" THEN 1
             ELSE IF wpc[w] = "unlock" THEN 2 ELSE 0

\* The tokens of the calls of lines 109-110 up to the one worker w is in.
Pending(w) ==
    LET r == JsonDumps(get_result_from_file(filename_input[w]))
        d == Token(delim[w], 0, w)
    IN  IF wpc[w] = "write_delim" THEN <<d>> ELSE <<d, Token(r.tok, r.path, w)>>

\* Line 108 raises: the file is not opened (and not created).
OpenRaise(w) ==
    /\ wpc[w] = "open"
    /\ output_lock' = Unlocked(output_lock, w)
    /\ wpc' = [wpc EXCEPT ![w] = "dead"]
    /\ UNCHANGED <<cmdline, nfiles, extractable, max_processes, exit_status, opc,
                   started, file_count, file_queue, unfinished, file_exists, file,
                   filename_input, delim, acked, had_output, got, layoutVars>>

\* Line 109 or line 110 raises (the buffer is flushed by the call and the
\* write fails).
WriteRaise(w) ==
    /\ wpc[w] \in {"write_delim", "write_record"}
    /\ \E q \in Cut(Pending(w)) :
         file' = SubSeq(file, 1, Len(file) - Handed(w)) \o q
    /\ output_lock' = Unlocked(output_lock, w)
    /\ wpc' = [wpc EXCEPT ![w] = "dead"]
    /\ UNCHANGED <<cmdline, nfiles, extractable, max_processes, exit_status, opc,
                   started, file_count, file_queue, unfinished, file_exists,
                   filename_input, delim, acked, had_output, got, layoutVars>>

\* Both writes returned; the close at the end of the with block of line 108
\* flushes the buffer and raises.
CloseRaise(w) ==
    /\ wpc[w] = "unlock"
    /\ \E q \in Cut(Pending(w)) :
         file' = SubSeq(file, 1, Len(file) - Handed(w)) \o q
    /\ output_lock' = Unlocked(output_lock, w)
    /\ wpc' = [wpc EXCEPT ![w] = "dead"]
    /\ UNCHANGED <<cmdline, nfiles, extractable, max_processes, exit_status, opc,
                   started, file_count, file_queue, unfinished, file_exists,
                   filename_input, delim, acked, had_output, got, layoutVars>>

\* Line 149 raises (the file is not created), or line 150 or the close at
\* the end of the block raises (']' written or not): the main process ends
\* with a traceback (status 1), and its daemon workers with it.
FinalRaise ==
    /\ opc \in {"open", "write", "unlock"}
    /\ \/ opc = "open" /\ file' = file
       \/ /\ opc \in {"write", "unlock"}
          /\ \E q \in Cut(<<Token("]", 0, Orch)>>) :
               file' = SubSeq(file, 1, Len(file) - (IF opc = "unlock" THEN 1 ELSE 0)) \o q
    /\ output_lock' = Unlocked(output_lock, Orch)
    /\ opc' = "exited"
    /\ exit_status' = 1
    /\ wpc' = [w \in Workers |-> IF wpc[w] \in {"unborn", "dead"} THEN wpc[w]
                                 ELSE "terminated"]
    /\ UNCHANGED <<cmdline, nfiles, extractable, max_processes, started,
                   file_count, file_queue, unfinished, file_exists,
                   filename_input, delim, acked, had_output, got, layoutVars>>

NextIO ==
    \/ Next
    \/ \E w \in Workers : OpenRaise(w)
    \/ \E w \in Workers : WriteRaise(w)
    \/ \E w \in Workers : CloseRaise(w)
    \/ FinalRaise

SpecIO == Init /\ [][NextIO]_vars

\* C15: the lock is held exactly by the processes inside a with output_lock
\* block, so never by a process that left it on an I/O error (a worker that
\* ended, the main process that exited); when a process waits for the lock
\* and no process is inside a block, the lock can be taken.
C15_LockReleasedOnError ==
    /\ output_lock = {w \in Workers : InSection(w)}
                       \cup (IF OrchInSection THEN {Orch} ELSE {})
    /\ \A w \in Workers : wpc[w] \in {"dead", "terminated"} => w \notin output_lock
    /\ opc = "exited" => Orch \notin output_lock
    /\ \A w \in Workers :
         (wpc[w] = "lock" /\ \A v \in Workers : ~InSection(v))
             => ENABLED Acquire(w)
    /\ (opc = "lock" /\ \A v \in Workers : ~InSection(v)) => ENABLED FinalLock

\* Worker 1 ended on an error raised by the close, with '[' and a part of
\* its record on disk; worker 2 then took the lock and wrote its ','.
C15_Witness ==
    /\ wpc[1] = "dead" /\ extractable[filename_input[1]]
    /\ Len(file) = 3 /\ file[1] = Token("[", 0, 1)
    /\ file[2] = Token("part", filename_input[1], 1)
    /\ file[3] = Token(",", 0, 2)
    /\ wpc[2] = "write_record" /\ output_lock = {2}

(***************************************************************************)
(* Layout flattening (lines 57-96).                                        *)
(*                                                                         *)
(* A page layout is the sequence of its nodes in pre-order; a node is      *)
(*   [depth, kind, text, fontname, fontsize, upright, x0, y0, x1, y1].     *)
(* The objects of layout._objs are the nodes of depth 1, and obj._objs are *)
(* the nodes of depth obj.depth + 1 between obj and the next node that is  *)
(* not deeper than obj.  text is what obj.get_text() returns.              *)
(***************************************************************************)
MaxNodes == 4      \* nodes of a page layout
MaxDepth == 3      \* nesting depth of a page layout

\* The whitespace of a unicode string (get_text() returns unicode): what
\* unicode.strip removes.
Whitespace ==
    AsciiSpace \cup
    {"\\x1c", "\\x1d", "\\x1e", "\\x1f", "\\x85", "\\xa0", "\\u1680", "\\u180e",
     "\\u2000", "\\u2001", "\\u2002", "\\u2003", "\\u2004", "\\u2005",
     "\\u2006", "\\u2007", "\\u2008", "\\u2009", "\\u200a", "\\u2028",
     "\\u2029", "\\u202f", "\\u205f", "\\u3000"}
Texts == {<<"\t", "\\xa0", "\n">>, <<" ", "\\x0b", "a", "\r", "\n">>}
Fonts == {[fontname |-> "F1", fontsize |-> 10, upright |-> TRUE],
          [fontname |-> "F2", fontsize |-> 12, upright |-> FALSE]}
NoFont == [fontname |-> "", fontsize |-> 0, upright |-> TRUE]
Kinds == {"LTTextLine", "LTTextBox", "LTFigure", "LTChar", "LTComponent"}

\* The nodes the layout engine can put at position i, depth d.
NodesAt(i, d) ==
    {[depth |-> d, kind |-> k, text |-> tx, fontname |-> f.fontname,
      fontsize |-> f.fontsize, upright |-> f.upright,
      x0 |-> i, y0 |-> d, x1 |-> i + 1, y1 |-> d + 1] :
        k \in Kinds,
        tx \in {<<>>} \cup Texts,
        f \in {NoFont} \cup Fonts}

WellFormedNode(n) ==
    /\ (n.kind = "LTTextLine") = (n.text # <<>>)
    /\ (n.kind = "LTChar") = (n.fontname # "")

\* get_text() of a text line joins the texts beneath it: a text line that is
\* not blank can be added only beneath text lines that are not blank.
TextFits(t, n) ==
    (n.kind = "LTTextLine" /\ \E c \in 1..Len(n.text) : n.text[c] \notin Whitespace)
        => \A k \in 1..Len(t) :
               (t[k].kind = "LTTextLine" /\ t[k].depth < n.depth
                  /\ \A m \in (k + 1)..Len(t) : t[m].depth > t[k].depth)
                   => \E c \in 1..Len(t[k].text) : t[k].text[c] \notin Whitespace

SetMin(S) == CHOOSE x \in S : \A y \in S : x <= y

\* The last node of the subtree of node i (i = 0: the layout itself).
SubtreeEnd(t, i) ==
    LET d == IF i = 0 THEN 0 ELSE t[i].depth
        later == {k \in (i + 1)..Len(t) : t[k].depth <= d}
    IN  IF later = {} THEN Len(t) ELSE SetMin(later) - 1

RECURSIVE SortedSeq(_)
SortedSeq(S) == IF S = {} THEN <<>>
                ELSE <<SetMin(S)>> \o SortedSeq(S \ {SetMin(S)})

\* obj._objs: the children of node i in order (i = 0: layout._objs).
Objs(t, i) ==
    LET d == IF i = 0 THEN 0 ELSE t[i].depth
    IN  SortedSeq({k \in (i + 1)..SubtreeEnd(t, i) : t[k].depth = d + 1})

\* str.strip(): leading and trailing whitespace removed.
lstrip(s) == SkipLeft(s, Whitespace)

rstrip(s) == SkipRight(s, Whitespace)

\* A faulty strip: the text is taken as it is.
strip_nothing(s) == s

strip(s) == rstrip(lstrip(s))

\* Line 81: the font of an LTChar.
CharFont(n) == [fontname |-> n.fontname, fontsize |-> n.fontsize,
                orientation |-> IF n.upright THEN "H" ELSE "V"]

\* Line 84.
DefaultFont == [fontname |-> "unknown", fontsize |-> 0, orientation |-> "H"]

\* Lines 76-84: the loop of get_font over objs, the rest of obj._objs.
RECURSIVE get_font_loop(_, _)
get_font_loop(t, objs) ==
    IF objs = <<>> THEN DefaultFont
    ELSE IF t[Head(objs)].kind = "LTChar" THEN CharFont(t[Head(objs)])
    ELSE IF t[Head(objs)].kind = "LTTextLine"
         THEN get_font_loop(t, Objs(t, Head(objs)))
    ELSE get_font_loop(t, Tail(objs))

get_font(t, obj) == get_font_loop(t, Objs(t, obj))

\* A faulty add: the label is put in front of the list.
add_front(lbls, font, obj, text) ==
    <<[x0 |-> obj.x0, y0 |-> obj.y0, x1 |-> obj.x1, y1 |-> obj.y1,
       fontname |-> font.fontname, fontsize |-> font.fontsize,
       orientation |-> font.orientation, text |-> text]>> \o lbls

\* Lines 87-96.
add(lbls, font, obj, text) ==
    Append(lbls, [x0 |-> obj.x0, y0 |-> obj.y0, x1 |-> obj.x1, y1 |-> obj.y1,
                  fontname |-> font.fontname, fontsize |-> font.fontsize,
                  orientation |-> font.orientation, text |-> text])

\* Lines 63-73.
RECURSIVE parse_obj(_, _, _)
parse_obj(t, objs, lbls) ==
    IF objs = <<>> THEN lbls
    ELSE LET obj == Head(objs)
             text == strip(t[obj].text)
             after ==
                 IF t[obj].kind = "LTTextLine"
                 THEN IF Len(text) > 0
                      THEN add(lbls, get_font(t, obj), t[obj], text)
                      ELSE lbls
                 ELSE IF t[obj].kind \in {"LTFigure", "LTTextBox"}
                      THEN parse_obj(t, Objs(t, obj), lbls)
                      ELSE lbls
         IN  parse_obj(t, Tail(objs), after)

\* Lines 57-60.
get_text_labels(t) == parse_obj(t, Objs(t, 0), <<>>)

TextLines(t) == {i \in 1..Len(t) : t[i].kind = "LTTextLine"}

\* The layout engine adds the next node of the page, in pre-order.
AddNode ==
    /\ lpc = "build"
    /\ Len(tree) < MaxNodes
    /\ \E d \in 1..MaxDepth :
         /\ d <= (IF tree = <<>> THEN 0 ELSE tree[Len(tree)].depth) + 1
         /\ \A k \in 1..Len(tree) :
                (SubtreeEnd(tree, k) = Len(tree) /\ tree[k].depth < d)
                    => tree[k].kind # "LTChar"
         /\ \E n \in NodesAt(Len(tree) + 1, d) :
              /\ WellFormedNode(n)
              /\ TextFits(tree, n)
              /\ tree' = Append(tree, n)
    /\ UNCHANGED <<labels, fonts, lpc, pipeVars>>

\* get_text_labels(layout) (line 41), and get_font on every text line of it.
Flatten ==
    /\ lpc = "build"
    /\ labels' = get_text_labels(tree)
    /\ fonts' = [i \in TextLines(tree) |-> get_font(tree, i)]
    /\ lpc' = "done"
    /\ UNCHANGED <<tree, pipeVars>>

InitLayout ==
    /\ cmdline = [malformed |-> FALSE, opts |-> <<>>]
    /\ nfiles = 0
    /\ extractable = <<>>
    /\ max_processes = DefaultMaxProcesses
    /\ exit_status = -1
    /\ opc = "main"
    /\ started = 0
    /\ file_count = 0
    /\ file_queue = <<>>
    /\ unfinished = 0
    /\ output_lock = {}
    /\ file_exists = FALSE
    /\ file = <<>>
    /\ wpc = [w \in Workers |-> "unborn"]
    /\ filename_input = [w \in Workers |-> 0]
    /\ delim = [w \in Workers |-> ""]
    /\ acked = <<>>
    /\ had_output = FALSE
    /\ got = <<>>
    /\ tree = <<>>
    /\ labels = <<>>
    /\ fonts = <<>>
    /\ lpc = "build"

NextLayout ==
    \/ AddNode
    \/ Flatten

SpecLayout == InitLayout /\ [][NextLayout]_vars


(***************************************************************************)
(* Properties of the layout flattening, checked under SpecLayout.          *)
(***************************************************************************)
Beneath(t, i) == (i + 1)..SubtreeEnd(t, i)
Ancestors(t, i) == {j \in 1..(i - 1) : t[j].depth < t[i].depth
                                        /\ SubtreeEnd(t, j) >= i}
CharsBeneath(t, i) == {j \in Beneath(t, i) : t[j].kind = "LTChar"}
IsBlank(s) == \A k \in 1..Len(s) : s[k] \in Whitespace
\* The labels made from node i (the engine gives node i the box starting at x0 = i).
LabelsOf(i) == {k \in 1..Len(labels) : labels[k].x0 = tree[i].x0}

\* C8 (as claimed): get_font of a text line is the default exactly when no
\* character is beneath it, and else the font of the first character beneath
\* it in pre-order. Stated for the text lines that have only text lines and
\* characters beneath them.
C8_FirstCharClaim ==
    lpc = "done" =>
        \A i \in TextLines(tree) :
            (\A j \in Beneath(tree, i) : tree[j].kind \in {"LTTextLine", "LTChar"})
                => fonts[i] = IF CharsBeneath(tree, i) = {} THEN DefaultFont
                              ELSE CharFont(tree[SetMin(CharsBeneath(tree, i))])

\* C9 (as claimed): every text line of the tree with a non-blank text has
\* exactly one label, every blank one has none, and no label has an empty text.
C9_EveryLineClaim ==
    lpc = "done" =>
        /\ \A i \in TextLines(tree) :
               Cardinality(LabelsOf(i)) = IF IsBlank(tree[i].text) THEN 0 ELSE 1
        /\ \A k \in 1..Len(labels) : labels[k].text # <<>>

\* A text line that parse_obj reaches: all its ancestors are text boxes or figures.
Surfaced(t, i) == \A j \in Ancestors(t, i) : t[j].kind \in {"LTTextBox", "LTFigure"}

\* C9 (amended): a text line has exactly one label when its text is not blank
\* and all its ancestors are text boxes or figures, and no label otherwise;
\* there are no other labels, and no label has an empty text.
C9_SurfacedLines ==
    lpc = "done" =>
        /\ \A i \in TextLines(tree) :
               Cardinality(LabelsOf(i)) =
                   IF Surfaced(tree, i) /\ ~IsBlank(tree[i].text) THEN 1 ELSE 0
        /\ \A k \in 1..Len(labels) :
               /\ labels[k].text # <<>>
               /\ \E i \in TextLines(tree) : k \in LabelsOf(i)

\* Flattened: a text box holding a text line with a text line nested in it
\* and a blank text line; only the first of the three has a label.
C9_Witness ==
    /\ lpc = "done"
    /\ Len(tree) = 4
    /\ tree[1].kind = "LTTextBox"
    /\ tree[2].kind = "LTTextLine" /\ tree[2].depth = 2 /\ ~IsBlank(tree[2].text)
    /\ tree[3].kind = "LTTextLine" /\ tree[3].depth = 3 /\ ~IsBlank(tree[3].text)
    /\ tree[4].kind = "LTTextLine" /\ tree[4].depth = 2 /\ IsBlank(tree[4].text)
    /\ Len(labels) = 1 /\ labels[1].x0 = 2 /\ labels[1].text = <<"a">>

\* The text lines that yield a label, in pre-order (a node's index is its
\* pre-order position).
Emitted(t) == SortedSeq({i \in TextLines(t) : Surfaced(t, i) /\ ~IsBlank(t[i].text)})

\* C16: the labels are, in this order, those of the non-blank text lines
\* reached through text boxes and figures only, in the pre-order of the tree,
\* each with the box and the stripped text of its line; nothing beneath a
\* text line or beneath a node of another type yields a label.
C16_LabelsInPreOrder ==
    lpc = "done" =>
        /\ Len(labels) = Len(Emitted(tree))
        /\ \A k \in 1..Len(labels) :
               /\ labels[k].x0 = tree[Emitted(tree)[k]].x0
               /\ labels[k].y0 = tree[Emitted(tree)[k]].y0
               /\ labels[k].text = strip(tree[Emitted(tree)[k]].text)
        /\ \A k \in 1..Len(labels) : \A j \in 1..Len(tree) :
               (labels[k].x0 = tree[j].x0)
                   => \A a \in Ancestors(tree, j) :
                          tree[a].kind \notin {"LTTextLine", "LTChar", "LTComponent"}

\* Flattened: a text box holding a figure holding a text line, followed by a
\* text line of the page; the nested line's label comes first.
C16_Witness ==
    /\ lpc = "done"
    /\ Len(tree) = 4
    /\ tree[1].kind = "LTTextBox" /\ tree[1].depth = 1
    /\ tree[2].kind = "LTFigure" /\ tree[2].depth = 2
    /\ tree[3].kind = "LTTextLine" /\ tree[3].depth = 3
    /\ tree[4].kind = "LTTextLine" /\ tree[4].depth = 1
    /\ Len(labels) = 2 /\ labels[1].x0 = 3 /\ labels[2].x0 = 4

====
